---- MODULE Spec2Model ----
(***************************************************************************)
(* Lasker Morris referee: the rules engine (LaskerMorris), the main loop   *)
(* run_game, and the process-backed player channel (AbstractPlayer) as the *)
(* referee uses it.                                                        *)
(***************************************************************************)
EXTENDS Integers, Sequences, FiniteSets, TLC

(***************************************************************************)
(* Bounds of the model.                                                    *)
(***************************************************************************)
\* Poll iterations of read() that make up the per-move time budget.
TimeBudget == 2

\* Stones in each hand at construction (player_hands).
StartHand == 10
\* A colour with fewer total stones than this has lost (determine_winner).
MinPieces == 3
\* Adjacency is enforced above this many pieces (_is_valid_move).
FlyPieces == 3

(***************************************************************************)
(* Board geometry.                                                         *)
(***************************************************************************)
None == "None"
Colors == {"blue", "orange"}

Grid ==
  { "a1", "b1", "c1", "d1", "e1", "f1", "g1",
    "a2", "b2", "c2", "d2", "e2", "f2", "g2",
    "a3", "b3", "c3", "d3", "e3", "f3", "g3",
    "a4", "b4", "c4", "d4", "e4", "f4", "g4",
    "a5", "b5", "c5", "d5", "e5", "f5", "g5",
    "a6", "b6", "c6", "d6", "e6", "f6", "g6",
    "a7", "b7", "c7", "d7", "e7", "f7", "g7" }

invalid_fields ==
  { "a2", "a3", "a5", "a6", "b1", "b3", "b5", "b7", "c1", "c2", "c6", "c7",
    "d4", "e1", "e2", "e6", "e7", "f1", "f3", "f5", "f7", "g2", "g3", "g5",
    "g6" }

ValidPositions == Grid \ invalid_fields

mills ==
  << <<"a1", "a4", "a7">>, <<"b2", "b4", "b6">>, <<"c3", "c4", "c5">>,
     <<"d1", "d2", "d3">>, <<"d5", "d6", "d7">>, <<"e3", "e4", "e5">>,
     <<"f2", "f4", "f6">>, <<"g1", "g4", "g7">>,
     <<"a1", "d1", "g1">>, <<"b2", "d2", "f2">>, <<"c3", "d3", "e3">>,
     <<"a4", "b4", "c4">>, <<"e4", "f4", "g4">>, <<"c5", "d5", "e5">>,
     <<"b6", "d6", "f6">>, <<"a7", "d7", "g7">> >>

neighbors ==
  [ a1 |-> <<"a4", "d1", "a4">>, a4 |-> <<"a1", "a7", "b4">>,
    a7 |-> <<"a4", "d7">>,       b2 |-> <<"b4", "d2">>,
    b4 |-> <<"b2", "b6", "a4", "c4">>, b6 |-> <<"b4", "d6">>,
    c3 |-> <<"c4", "d3">>,       c4 |-> <<"c3", "c5", "b4">>,
    c5 |-> <<"c4", "d5">>,       d1 |-> <<"a1", "d2", "g1">>,
    d2 |-> <<"b2", "d1", "d3", "f2">>, d3 |-> <<"c3", "d2", "e3">>,
    d5 |-> <<"c5", "d6", "e5">>, d6 |-> <<"b6", "d5", "d7", "f6">>,
    d7 |-> <<"a7", "d6", "g7">>, e3 |-> <<"d3", "e4">>,
    e4 |-> <<"e3", "e5", "f4">>, e5 |-> <<"d5", "e4">>,
    f2 |-> <<"d2", "f4">>,       f4 |-> <<"e4", "f2", "f6", "g4">>,
    f6 |-> <<"d6", "f4">>,       g1 |-> <<"d1", "g4">>,
    g4 |-> <<"f4", "g1", "g7">>, g7 |-> <<"d7", "g4">> ]

InSeq(x, s) == \E i \in 1..Len(s) : s[i] = x

(***************************************************************************)
(* Lines of the wire protocol.  A line is a sequence of words and blanks;  *)
(* SP is one whitespace character.                                         *)
(***************************************************************************)
SP == " "

RECURSIVE lstrip(_)
lstrip(s) == IF s = <<>> THEN s
             ELSE IF Head(s) = SP THEN lstrip(Tail(s)) ELSE s

RECURSIVE rstrip(_)
rstrip(s) == IF s = <<>> THEN s
             ELSE IF s[Len(s)] = SP THEN rstrip(SubSeq(s, 1, Len(s) - 1))
             ELSE s

\* str.strip()
strip(s) == rstrip(lstrip(s))

IsWord(x) == x # SP

\* str.split(): the words between runs of whitespace
split(s) == SelectSeq(s, IsWord)

\* The lines a player process prints in a game (before the referee strips
\* them): placements, the moves that open and close the mill d1-d2-d3, the
\* captures they carry, and a line of two words.
Lines ==
  { <<"h", SP, "d1", SP, "r0">>,
    <<"h", SP, SP, "d2", SP, "r0">>,
    <<"h", SP, "d3", SP, "g4">>,
    <<"d1", SP, "a1", SP, "r0">>,
    <<"a1", SP, "d1", SP, "g4">>,
    <<SP, "h", SP, "g7", SP, "r0", SP>>,
    <<"g7", SP, "g4", SP, "r0">>,
    <<"h", SP, "d1", SP>> }

(***************************************************************************)
(* State.                                                                  *)
(***************************************************************************)
Players == {1, 2}
NoPlayer == 0

VARIABLES
  color,           \* LaskerPlayer.color of _player1 and _player2
  board,           \* LaskerMorris.board
  player_hands,    \* LaskerMorris.player_hands
  current_player,  \* AbstractGame._current_player
  is_game_over,    \* AbstractGame._is_game_over
  pc,              \* position of the controller in run_game
  move,            \* run_game's local: the line read() returned
  winner,          \* value run_game returned
  last_mover,      \* colour whose move _execute_move applied last
  process,         \* AbstractPlayer.process: "alive", "dead" or None
  output_queue,    \* AbstractPlayer._output_queue
  stop_calls,      \* how often stop() was invoked on each channel
  stdin,           \* what write() has sent to each process
  elapsed,         \* poll iterations spent in the current read()
  unit             \* a direct call of one method: its arguments and result

vars == << color, board, player_hands, current_player, is_game_over, pc, move,
           winner, last_mover, process, output_queue, stop_calls, stdin,
           elapsed, unit >>

gameVars == << board, player_hands >>
chanVars == << process, output_queue, stop_calls, stdin >>

Other(p) == IF p = 1 THEN 2 ELSE 1

\* LaskerPlayer.get_color / .color of the current player
CurColor == color[current_player]

NoLine == <<"<none>">>

\* The record kept of a process's standard input: the first and the most
\* recent line written, and the parity of the number of lines.
EmptyStdin == [first |-> NoLine, last |-> NoLine, parity |-> 0]

(***************************************************************************)
(* The rules: LaskerMorris._is_mill, _check_corret_step,                   *)
(* _count_player_pieces, _is_valid_move, _execute_move, make_move.         *)
(***************************************************************************)
\* Mutant: the stone on the source, which the move vacates, is counted too.
StonesInMill_CountsSource(mill, source, target, c) ==
  LET counted(i) == IF mill[i] = target THEN 1
                    ELSE IF board[mill[i]] = c THEN 1
                    ELSE 0
  IN counted(1) + counted(2) + counted(3)

\* One pass of _is_mill's inner loop: the stones counted in one mill.
StonesInMill(mill, source, target, c) ==
  LET counted(i) == IF mill[i] = target THEN 1
                    ELSE IF mill[i] # source /\ board[mill[i]] = c THEN 1
                    ELSE 0
  IN counted(1) + counted(2) + counted(3)

_is_mill(source, target) ==
  \E k \in 1..Len(mills) :
     /\ InSeq(target, mills[k])
     /\ StonesInMill(mills[k], source, target, CurColor) = 3

_check_corret_step(source, target) ==
  IF source \notin DOMAIN neighbors \/ target \notin DOMAIN neighbors
  THEN FALSE
  ELSE InSeq(target, neighbors[source])

_count_player_pieces(c) ==
  Cardinality({p \in Grid : board[p] = c}) + player_hands[c]

\* Mutant: a target that already holds a stone passes.
TargetOk_IgnoresOccupied(target) ==
  ~(target \in invalid_fields \/ target \notin Grid)

\* _is_valid_move, the target: a position of the board that is empty.
TargetOk(target) ==
  /\ ~(target \in invalid_fields \/ target \notin Grid)
  /\ board[target] = None

\* Mutant: adjacency is never enforced.
MustStep_Never(c) == FALSE

\* Mutant: adjacency is always enforced.
MustStep_Always(c) == TRUE

\* _is_valid_move: adjacent steps are enforced above FlyPieces pieces.
MustStep(c) == _count_player_pieces(c) > FlyPieces

\* Mutant: a stone of either colour may be moved.
SourceOk_AnyStone(source, target) ==
  IF source # "h"
  THEN /\ ~(source \in invalid_fields \/ source \notin Grid)
       /\ board[source] # None
       /\ (MustStep(CurColor) => _check_corret_step(source, target))
  ELSE ~(player_hands[CurColor] <= 0)

\* Mutant: a placement passes with nothing in the hand.
SourceOk_EmptyHandPasses(source, target) ==
  IF source # "h"
  THEN /\ ~(source \in invalid_fields \/ source \notin Grid)
       /\ board[source] = CurColor
       /\ (MustStep(CurColor) => _check_corret_step(source, target))
  ELSE TRUE

\* _is_valid_move, the source: the mover's own stone on the board (an
\* adjacent one unless flying), or the hand with a stone left in it.
SourceOk(source, target) ==
  IF source # "h"
  THEN /\ ~(source \in invalid_fields \/ source \notin Grid)
       /\ board[source] = CurColor
       /\ (MustStep(CurColor) => _check_corret_step(source, target))
  ELSE ~(player_hands[CurColor] <= 0)

\* Mutant: r0 passes whether or not the move closes a mill.
RemoveOk_R0Always(source, target, remove) ==
  IF remove # "r0"
  THEN /\ ~(remove \in invalid_fields \/ remove \notin Grid)
       /\ board[remove] # None
       /\ board[remove] # CurColor
       /\ _is_mill(source, target)
  ELSE TRUE

\* Mutant: the removal may name one of the mover's own stones.
RemoveOk_OwnStone(source, target, remove) ==
  IF remove # "r0"
  THEN /\ ~(remove \in invalid_fields \/ remove \notin Grid)
       /\ board[remove] # None
       /\ _is_mill(source, target)
  ELSE ~_is_mill(source, target)

\* Mutant: no removal is accepted with a move that closes a mill.
RemoveOk_NeverCapture(source, target, remove) ==
  remove = "r0" /\ ~_is_mill(source, target)

\* Mutant: an opponent stone may be named without a mill being closed.
RemoveOk_NoMillNeeded(source, target, remove) ==
  IF remove # "r0"
  THEN /\ ~(remove \in invalid_fields \/ remove \notin Grid)
       /\ board[remove] # None
       /\ board[remove] # CurColor
  ELSE ~_is_mill(source, target)

\* _is_valid_move, the removal: an opponent's stone when the move closes a
\* mill, r0 when it does not.
RemoveOk(source, target, remove) ==
  IF remove # "r0"
  THEN /\ ~(remove \in invalid_fields \/ remove \notin Grid)
       /\ board[remove] # None
       /\ board[remove] # CurColor
       /\ _is_mill(source, target)
  ELSE ~_is_mill(source, target)

_is_valid_move(source, target, remove) ==
  /\ TargetOk(target)
  /\ SourceOk(source, target)
  /\ RemoveOk(source, target, remove)

\* Mutant: a stone taken from the hand is not subtracted.
HandsAfter_NoDecrement(source) == player_hands

\* The hand count after _execute_move.
HandsAfter(source) ==
  IF source = "h"
  THEN [player_hands EXCEPT ![CurColor] = @ - 1]
  ELSE player_hands

\* Mutant: the stone moved stays on its source as well.
BoardAfter_KeepsSource(source, target, remove) ==
  LET b2 == [board EXCEPT ![target] = CurColor]
  IN IF remove # "r0" THEN [b2 EXCEPT ![remove] = None] ELSE b2

\* Mutant: the captured stone stays on the board.
BoardAfter_KeepsRemoved(source, target, remove) ==
  LET b1 == IF source = "h" THEN board ELSE [board EXCEPT ![source] = None]
  IN [b1 EXCEPT ![target] = CurColor]

\* The board after _execute_move: source cleared, target set, removal cleared.
BoardAfter(source, target, remove) ==
  LET b1 == IF source = "h" THEN board ELSE [board EXCEPT ![source] = None]
      b2 == [b1 EXCEPT ![target] = CurColor]
  IN IF remove # "r0" THEN [b2 EXCEPT ![remove] = None] ELSE b2

\* make_move's verdict on a line: three words that pass _is_valid_move.
MoveAccepted(line) ==
  LET parts == split(strip(line))
  IN /\ Len(parts) = 3
     /\ _is_valid_move(parts[1], parts[2], parts[3])

\* Mutant: the stone is put on a target that passes before the rest of the
\* move is validated.
make_move_PlacesFirst(line, ok) ==
  LET parts == split(strip(line))
  IN /\ ok = MoveAccepted(line)
     /\ IF ok
        THEN /\ board' = BoardAfter(parts[1], parts[2], parts[3])
             /\ player_hands' = HandsAfter(parts[1])
             /\ last_mover' = CurColor
        ELSE /\ board' = IF Len(parts) = 3 /\ TargetOk(parts[2])
                         THEN [board EXCEPT ![parts[2]] = CurColor]
                         ELSE board
             /\ UNCHANGED << player_hands, last_mover >>

\* make_move: returns FALSE and changes nothing, or executes and returns TRUE.
make_move(line, ok) ==
  LET parts == split(strip(line))
  IN /\ ok = MoveAccepted(line)
     /\ IF ok
        THEN /\ board' = BoardAfter(parts[1], parts[2], parts[3])
             /\ player_hands' = HandsAfter(parts[1])
             /\ last_mover' = CurColor
        ELSE UNCHANGED << board, player_hands, last_mover >>

\* Mutant: the threshold of the docstring, "fewer than 2 pieces".
WinnerNow_FewerThanTwo ==
  IF _count_player_pieces(color[1]) < MinPieces - 1 THEN 2
  ELSE IF _count_player_pieces(color[2]) < MinPieces - 1 THEN 1
  ELSE NoPlayer

\* Mutant: determine_winner returns the player that is short of stones.
WinnerNow_ReturnsLoser ==
  IF _count_player_pieces(color[1]) < MinPieces THEN 1
  ELSE IF _count_player_pieces(color[2]) < MinPieces THEN 2
  ELSE NoPlayer

\* determine_winner's return value: the opponent of the first of _player1,
\* _player2 whose total is below MinPieces, or NoPlayer.
WinnerNow ==
  IF _count_player_pieces(color[1]) < MinPieces THEN 2
  ELSE IF _count_player_pieces(color[2]) < MinPieces THEN 1
  ELSE NoPlayer

\* determine_winner: returns w, and sets the game-over flag when it returns
\* a winner.
determine_winner(w) ==
  /\ w = WinnerNow
  /\ is_game_over' = IF w # NoPlayer THEN TRUE ELSE is_game_over

\* AbstractGame.switch_player
switch_player == current_player' = Other(current_player)

\* Mutant: _player1 moves first whatever its colour.
FirstPlayer_AlwaysPlayer1(col) == 1

\* initialize_game's choice of who moves first: the blue player.
FirstPlayer(col) == IF col[1] = "blue" THEN 1 ELSE 2

(***************************************************************************)
(* The player channel: AbstractPlayer.write, read, _process_output, stop.  *)
(***************************************************************************)
StdinAfter(p, data) ==
  [first  |-> IF stdin[p].first = NoLine THEN data ELSE stdin[p].first,
   last   |-> data,
   parity |-> 1 - stdin[p].parity]

\* write(data): one line to the process's standard input.
write(p, data) == stdin' = [stdin EXCEPT ![p] = StdinAfter(p, data)]

\* Mutant: read() pops the line queued last.
ReadLine_Newest ==
  /\ output_queue[current_player] # <<>>
  /\ move' = strip(output_queue[current_player][Len(output_queue[current_player])])
  /\ output_queue' = [output_queue EXCEPT ![current_player] =
                        SubSeq(@, 1, Len(@) - 1)]
  /\ elapsed' = 0
  /\ pc' = "make_move"

\* read(), a line is queued: pop the oldest and return it stripped.
ReadLine ==
  /\ output_queue[current_player] # <<>>
  /\ move' = strip(Head(output_queue[current_player]))
  /\ output_queue' = [output_queue EXCEPT ![current_player] = Tail(@)]
  /\ elapsed' = 0
  /\ pc' = "make_move"

\* Mutant: with the process gone, read() hands back the line it returned
\* before instead of "".
ReadClosed_StaleLine ==
  /\ output_queue[current_player] = <<>>
  /\ process[current_player] # "alive"
  /\ elapsed' = 0
  /\ pc' = "make_move"
  /\ UNCHANGED << move, output_queue >>

\* read(), the queue is empty and the process is gone: return "".
ReadClosed ==
  /\ output_queue[current_player] = <<>>
  /\ process[current_player] # "alive"
  /\ move' = <<>>
  /\ elapsed' = 0
  /\ pc' = "make_move"
  /\ UNCHANGED output_queue

\* Mutant: read() gives up on a running process and returns "".
ReadPoll_GivesUp ==
  /\ output_queue[current_player] = <<>>
  /\ process[current_player] = "alive"
  /\ move' = <<>>
  /\ elapsed' = 0
  /\ pc' = "make_move"
  /\ UNCHANGED output_queue

\* read(), the queue is empty and the process runs: sleep and look again.
ReadPoll ==
  /\ output_queue[current_player] = <<>>
  /\ process[current_player] = "alive"
  /\ elapsed <= TimeBudget
  /\ elapsed' = elapsed + 1
  /\ UNCHANGED << move, output_queue, pc >>

\* A player has been sent a line (its colour, or the opponent's move) that it
\* has not answered yet.
Prompted(p) ==
  /\ output_queue[p] = <<>>
  /\ \/ p = current_player /\ pc \in {"start", "read"}
     \/ p # current_player /\ pc \in {"determine", "switch"}

\* _process_output: the reader thread takes the line the process printed and
\* appends it to the queue.  A player prints one line, of any content, for
\* each line it is sent; the line may arrive before the referee reads.
ProcessOutput(p, line) ==
  /\ process[p] = "alive"
  /\ Prompted(p)
  /\ output_queue' = [output_queue EXCEPT ![p] = Append(@, line)]
  /\ UNCHANGED << color, board, player_hands, current_player, is_game_over,
                  pc, move, winner, last_mover, process, stop_calls, stdin,
                  elapsed, unit >>

\* The player process exits: poll() no longer returns None.
ProcessExit(p) ==
  /\ pc \notin {"done", "raised"}
  /\ process[p] = "alive"
  /\ process' = [process EXCEPT ![p] = "dead"]
  /\ UNCHANGED << color, board, player_hands, current_player, is_game_over,
                  pc, move, winner, last_mover, output_queue, stop_calls,
                  stdin, elapsed, unit >>

\* Mutant: stop() keeps the process handle.
stop_KeepsHandle(p) ==
  /\ stop_calls' = [stop_calls EXCEPT ![p] = @ + 1]
  /\ IF process[p] # None
     THEN /\ output_queue' = [output_queue EXCEPT ![p] = <<>>]
          /\ UNCHANGED process
     ELSE UNCHANGED << process, output_queue >>

\* stop(): terminate the process, drop the handle, clear the queue.
stop(p) ==
  /\ stop_calls' = [stop_calls EXCEPT ![p] = @ + 1]
  /\ IF process[p] # None
     THEN /\ process' = [process EXCEPT ![p] = None]
          /\ output_queue' = [output_queue EXCEPT ![p] = <<>>]
     ELSE UNCHANGED << process, output_queue >>

(***************************************************************************)
(* run_game, one action per step of the loop.                              *)
(***************************************************************************)
\* The loop test: while not self.is_game_over.
LoopTest == IF is_game_over THEN "done" ELSE "read"

Start ==
  /\ pc = "start"
  /\ pc' = LoopTest
  /\ UNCHANGED << color, board, player_hands, current_player, is_game_over,
                  move, winner, last_mover, process, output_queue,
                  stop_calls, stdin, elapsed, unit >>

\* move = self.current_player.read()
Read ==
  /\ pc = "read"
  /\ (ReadLine \/ ReadClosed \/ ReadPoll)
  /\ UNCHANGED << color, board, player_hands, current_player, is_game_over,
                  winner, last_mover, process, stop_calls, stdin, unit >>

\* if not self.make_move(move): self._is_game_over = True
MakeMove ==
  /\ pc = "make_move"
  /\ \E ok \in BOOLEAN :
       /\ make_move(move, ok)
       /\ is_game_over' = IF ok THEN is_game_over ELSE TRUE
       /\ pc' = IF ok THEN "write" ELSE "stop1"
  /\ UNCHANGED << color, current_player, move, winner, process, output_queue,
                  stop_calls, stdin, elapsed, unit >>

\* Mutant: the player whose move was rejected is returned as the winner.
ForfeitWinner_Mover == current_player

\* The player run_game returns after a rejected move.
ForfeitWinner == IF current_player = 1 THEN 2 ELSE 1

\* The forfeit: self._player1.stop()
Stop1 ==
  /\ pc = "stop1"
  /\ stop(1)
  /\ pc' = "stop2"
  /\ UNCHANGED << color, board, player_hands, current_player, is_game_over,
                  move, winner, last_mover, stdin, elapsed, unit >>

\* The forfeit: self._player2.stop(), then return the other player.
Stop2 ==
  /\ pc = "stop2"
  /\ stop(2)
  /\ winner' = ForfeitWinner
  /\ pc' = "done"
  /\ UNCHANGED << color, board, player_hands, current_player, is_game_over,
                  move, last_mover, stdin, elapsed, unit >>

\* The words of a line joined by single blanks.
RECURSIVE Join(_)
Join(ws) == IF ws = <<>> THEN <<>>
            ELSE IF Len(ws) = 1 THEN ws
            ELSE <<Head(ws), SP>> \o Join(Tail(ws))

\* Mutant: the move is passed on re-serialised from its parsed words.
RelayedLine_Rejoined == Join(split(move))

\* The line run_game passes on to the other player.
RelayedLine == move

\* other_player.write(move); a write to a process that has exited raises.
Relay ==
  /\ pc = "write"
  /\ LET other_player == IF current_player = 1 THEN 2 ELSE 1
     IN IF process[other_player] = "alive"
        THEN /\ write(other_player, RelayedLine)
             /\ pc' = "determine"
        ELSE /\ pc' = "raised"
             /\ UNCHANGED stdin
  /\ UNCHANGED << color, board, player_hands, current_player, is_game_over,
                  move, winner, last_mover, process, output_queue,
                  stop_calls, elapsed, unit >>

\* winner = self.determine_winner(); if winner: return winner
CheckWinner ==
  /\ pc = "determine"
  /\ \E w \in Players \cup {NoPlayer} :
       /\ determine_winner(w)
       /\ winner' = w
       /\ pc' = IF w # NoPlayer THEN "done" ELSE "switch"
  /\ UNCHANGED << color, board, player_hands, current_player, move,
                  last_mover, process, output_queue, stop_calls, stdin,
                  elapsed, unit >>

\* self.switch_player(), the pause, and the loop test.
Switch ==
  /\ pc = "switch"
  /\ switch_player
  /\ pc' = LoopTest
  /\ UNCHANGED << color, board, player_hands, is_game_over, move, winner,
                  last_mover, process, output_queue, stop_calls, stdin,
                  elapsed, unit >>

NoCall == [op |-> "none"]

\* The state after LaskerMorris.__init__ (with initialize_game).
Init ==
  /\ color \in {<<"blue", "orange">>, <<"orange", "blue">>}
  /\ board = [p \in Grid |-> None]
  /\ player_hands = [c \in Colors |-> StartHand]
  /\ current_player = FirstPlayer(color)
  /\ is_game_over = FALSE
  /\ pc = "start"
  /\ move = NoLine
  /\ winner = NoPlayer
  /\ last_mover = None
  /\ process = [p \in Players |-> "alive"]
  /\ output_queue = [p \in Players |-> <<>>]
  /\ stop_calls = [p \in Players |-> 0]
  /\ stdin = [p \in Players |->
                IF p = FirstPlayer(color)
                THEN [first |-> <<"blue">>, last |-> <<"blue">>, parity |-> 1]
                ELSE EmptyStdin]
  /\ elapsed = 0
  /\ unit = NoCall

Next ==
  \/ Start
  \/ Read
  \/ MakeMove
  \/ Stop1
  \/ Stop2
  \/ Relay
  \/ CheckWinner
  \/ Switch
  \/ \E p \in Players, line \in Lines : ProcessOutput(p, line)
  \/ \E p \in Players : ProcessExit(p)

Spec == Init /\ [][Next]_vars

(***************************************************************************)
(* Claims about run_game, checked under Spec.                              *)
(***************************************************************************)
\* The line in `move` does not have exactly three words.
Malformed == Len(split(move)) # 3

\* C1: when the line read is malformed or fails validation, run_game sets the
\* game-over flag, leaves board and hands alone, reads no further line (the
\* controller goes through the two stops straight to its return) and returns
\* the opponent of the player whose line it was.
C1_ForfeitOnRejectedMove ==
  [][ /\ (pc = "make_move" /\ pc' # pc /\ (Malformed \/ ~MoveAccepted(move)))
          => (pc' = "stop1" /\ is_game_over' /\ UNCHANGED gameVars)
      /\ (pc = "stop1" /\ pc' # pc) => (pc' = "stop2" /\ is_game_over')
      /\ (pc = "stop2" /\ pc' # pc)
          => (pc' = "done" /\ is_game_over'
              /\ winner' = Other(current_player)
              /\ current_player' = current_player)
      /\ (pc = "done" => pc' = "done") ]_vars

\* A line of three words that fails validation in mid-game has ended the
\* game for the opponent.
C1_Witness ==
  /\ pc = "done"
  /\ ~Malformed
  /\ ~MoveAccepted(move)
  /\ last_mover = color[winner]
  /\ winner = Other(current_player)
  /\ is_game_over

\* C2: a player whose process runs but prints nothing within the time budget
\* loses: once the budget is exceeded the game is over and the other player
\* has won.
C2_SilentPlayerForfeits ==
  elapsed > TimeBudget
    => (is_game_over /\ pc = "done" /\ winner = Other(current_player))

\* C3: with the current player's process exited and its queue empty, read()
\* yields the empty line, make_move rejects it, and the game ends as that
\* player's forfeit.
C3_ClosedChannelForfeits ==
  [][ /\ (/\ pc = "read" /\ pc' # pc
          /\ output_queue[current_player] = <<>>
          /\ process[current_player] # "alive")
          => (move' = <<>> /\ pc' = "make_move")
      /\ (pc = "make_move" /\ pc' # pc /\ move = <<>>)
          => (pc' = "stop1" /\ is_game_over' /\ UNCHANGED gameVars)
      /\ (pc \in {"stop1", "stop2"} /\ move = <<>>)
          => (/\ pc' \in {"stop1", "stop2", "done"}
              /\ move' = move /\ current_player' = current_player
              /\ (pc' = "done" => winner' = Other(current_player))) ]_vars

\* The empty read of a dead channel has ended the game for the opponent.
C3_Witness ==
  /\ pc = "done"
  /\ move = <<>>
  /\ is_game_over
  /\ winner = Other(current_player)
  /\ last_mover = color[winner]

\* C4: whenever run_game has returned, stop() has been invoked exactly once
\* on each of the two channels.
C4_StoppedOnceOnReturn ==
  pc = "done" => \A p \in Players : stop_calls[p] = 1

\* The move in `move` has been applied to the board for the current player.
Executed ==
  LET parts == split(move)
  IN /\ Len(parts) = 3
     /\ last_mover = CurColor
     /\ board[parts[2]] = CurColor
     /\ (parts[1] \in Grid => board[parts[1]] = None)
     /\ (parts[3] \in Grid => board[parts[3]] = None)

\* C5: a line reaches a player's standard input only in the write step of
\* run_game, which is entered only from an accepted make_move; the line goes
\* to the opponent alone, is the string read() returned, and by then the move
\* is on the board.  After a rejected move nothing is written.
C5_RelayAfterExecution ==
  [][ /\ (stdin' # stdin)
          => (/\ pc = "write"
              /\ Executed
              /\ stdin'[Other(current_player)].last = move
              /\ stdin'[current_player] = stdin[current_player])
      /\ (pc' = "write" /\ pc # "write")
          => (pc = "make_move" /\ ~Malformed /\ MoveAccepted(move))
      /\ (pc = "make_move" /\ ~MoveAccepted(move)) => pc' # "write" ]_vars

\* A move whose line holds a run of two blanks has been relayed as read.
C5_Witness ==
  /\ pc = "determine"
  /\ move = <<"h", SP, SP, "d2", SP, "r0">>
  /\ stdin[Other(current_player)].last = move
  /\ board["d2"] = CurColor

\* C6: the players' colours never change; the first accepted move is blue's,
\* and every accepted move is made by the colour that did not make the one
\* before it.
C6_MovesAlternate ==
  [][ /\ color' = color
      /\ (pc = "make_move" /\ pc' = "write")
          => (/\ last_mover' = CurColor
              /\ IF last_mover = None THEN CurColor = "blue"
                 ELSE last_mover # CurColor)
      /\ (pc = "read" /\ last_mover = None) => CurColor = "blue"
      /\ (pc = "switch" /\ pc' # pc)
          => (pc' = "read" /\ current_player' = Other(current_player)) ]_vars

\* Orange, as _player1, is about to be read after blue's second move.
C6_Witness ==
  /\ pc = "read"
  /\ color = <<"orange", "blue">>
  /\ current_player = 1
  /\ last_mover = "blue"
  /\ player_hands["blue"] = StartHand - 2
  /\ player_hands["orange"] = StartHand - 1

\* C7: the first line written to a player's standard input is that player's
\* own colour.
C7_FirstLineIsOwnColour ==
  \A p \in Players : stdin[p].first \in {NoLine, <<color[p]>>}

(***************************************************************************)
(* determine_winner called directly on a position, as the tests call it.   *)
(***************************************************************************)
\* The boards whose stones all lie on the positions S.
BoardsOn(S) ==
  { [p \in Grid |-> IF p \in S THEN f[p] ELSE None] :
      f \in [S -> Colors \cup {None}] }

\* The stones a direct call finds on the board lie on these positions.
WinnerPositions == {"d1", "d2", "d3", "a4"}

\* Largest hand count of a position handed to determine_winner.
MaxUnitHand == 2

Entry(m, c) == [move |-> m, player |-> c]

\* The four moves of test_oscillation_detection that repeat.
Cycle4 ==
  << Entry(<<"d1", SP, "d2", SP, "r0">>, "blue"),
     Entry(<<"e1", SP, "e2", SP, "r0">>, "orange"),
     Entry(<<"d2", SP, "d1", SP, "r0">>, "blue"),
     Entry(<<"e2", SP, "e1", SP, "r0">>, "orange") >>

\* The four moves of test_oscillation_detection that do not repeat.
NonRepeating4 ==
  << Entry(<<"d1", SP, "d2", SP, "r0">>, "blue"),
     Entry(<<"e1", SP, "e2", SP, "r0">>, "orange"),
     Entry(<<"d2", SP, "d3", SP, "r0">>, "blue"),
     Entry(<<"e2", SP, "e3", SP, "r0">>, "orange") >>

\* The move histories of the tests: none, 4 moves, 8 and 12 repeating moves.
Histories ==
  { <<>>, NonRepeating4, Cycle4 \o Cycle4, Cycle4 \o Cycle4 \o Cycle4 }

InitWinner ==
  /\ color \in {<<"blue", "orange">>, <<"orange", "blue">>}
  /\ board \in BoardsOn(WinnerPositions)
  /\ player_hands \in [Colors -> 0..MaxUnitHand]
  /\ current_player = FirstPlayer(color)
  /\ is_game_over \in BOOLEAN
  /\ pc = "unit"
  /\ move = NoLine
  /\ winner = NoPlayer
  /\ last_mover = None
  /\ process = [p \in Players |-> "alive"]
  /\ output_queue = [p \in Players |-> <<>>]
  /\ stop_calls = [p \in Players |-> 0]
  /\ stdin = [p \in Players |-> EmptyStdin]
  /\ elapsed = 0
  /\ \E h \in Histories : unit = [op |-> "none", game_history |-> h]

CallDetermineWinner ==
  /\ pc = "unit"
  /\ unit.op = "none"
  /\ \E w \in Players \cup {NoPlayer} :
       /\ determine_winner(w)
       /\ unit' = [op |-> "determine_winner", ret |-> w,
                   was_over |-> is_game_over,
                   game_history |-> unit.game_history]
  /\ UNCHANGED << color, board, player_hands, current_player, pc, move,
                  winner, last_mover, process, output_queue, stop_calls,
                  stdin, elapsed >>

NextWinner == CallDetermineWinner

WinnerSpec == InitWinner /\ [][NextWinner]_vars

\* A colour's stones on the board plus the stones in its hand.
Total(c) == Cardinality({p \in ValidPositions : board[p] = c}) + player_hands[c]

IsOscillating(h) ==
  /\ Len(h) >= 8
  /\ \A i \in 5..Len(h) : i > Len(h) - 4 => h[i].move = h[i - 4].move

\* C9: when the last moves of the history repeat with a 4-move cycle and
\* neither colour is below 3 stones, determine_winner reports a draw: it
\* returns no winner and the game is marked over.
C9_OscillationIsDraw ==
  (/\ unit.op = "determine_winner"
   /\ IsOscillating(unit.game_history)
   /\ \A c \in Colors : Total(c) >= 3)
    => (unit.ret = NoPlayer /\ is_game_over)

(***************************************************************************)
(* _is_mill called directly, on every target and every filling of the two  *)
(* mills through it.                                                       *)
(***************************************************************************)
MillSets == { {mills[k][1], mills[k][2], mills[k][3]} : k \in 1..Len(mills) }

\* The positions that share a mill with t.
MillMates(t) == UNION { m \in MillSets : t \in m } \ {t}

\* A position that shares no mill with t.
FarFrom(t) == CHOOSE p \in ValidPositions : p # t /\ p \notin MillMates(t)

InitMill ==
  /\ color = <<"blue", "orange">>
  /\ current_player \in Players
  /\ \E t \in ValidPositions :
       /\ board \in BoardsOn(MillMates(t) \cup {FarFrom(t)})
       /\ unit = [op |-> "none", target |-> t]
  /\ player_hands = [c \in Colors |-> StartHand]
  /\ is_game_over = FALSE
  /\ pc = "unit"
  /\ move = NoLine
  /\ winner = NoPlayer
  /\ last_mover = None
  /\ process = [p \in Players |-> "alive"]
  /\ output_queue = [p \in Players |-> <<>>]
  /\ stop_calls = [p \in Players |-> 0]
  /\ stdin = [p \in Players |-> EmptyStdin]
  /\ elapsed = 0

CallIsMill(source) ==
  /\ pc = "unit"
  /\ unit.op = "none"
  /\ unit' = [op |-> "_is_mill", source |-> source, target |-> unit.target,
              ret |-> _is_mill(source, unit.target)]
  /\ UNCHANGED << color, board, player_hands, current_player, is_game_over,
                  pc, move, winner, last_mover, process, output_queue,
                  stop_calls, stdin, elapsed >>

NextMill ==
  \E source \in {"h"} \cup ValidPositions :
     /\ source \in {"h", FarFrom(unit.target)} \cup MillMates(unit.target)
     /\ CallIsMill(source)

MillSpec == InitMill /\ [][NextMill]_vars

\* The board a move would leave: the source vacated, the mover on the target.
Hypothetical(source, target) ==
  [p \in Grid |-> IF p = target THEN CurColor
                  ELSE IF p = source THEN None
                  ELSE board[p]]

\* C10: _is_mill(source, target) is true iff one of the 16 mills containing
\* the target is held entirely by the mover on the board with the mover's
\* stone put on the target and the source vacated.
C10_MillIffLineHeld ==
  /\ Cardinality(MillSets) = 16
  /\ unit.op = "_is_mill" =>
       (unit.ret <=>
          \E m \in MillSets :
             /\ unit.target \in m
             /\ \A p \in m : Hypothetical(unit.source, unit.target)[p] = CurColor)

\* The source is the mover's stone in a line through the target whose third
\* position the mover holds too: vacated, it completes no mill.
C10_Witness ==
  /\ unit.op = "_is_mill"
  /\ unit.source \in ValidPositions
  /\ board[unit.source] = CurColor
  /\ \E m \in MillSets :
       /\ unit.target \in m /\ unit.source \in m
       /\ \A p \in m \ {unit.target} : board[p] = CurColor
  /\ ~unit.ret

(***************************************************************************)
(* make_move called directly on a position, as the tests call it.          *)
(***************************************************************************)
\* The stones a direct call of make_move finds lie on these positions: the
\* line d1-d2 that d3 completes, the mill a1-a4-a7, and the corner g1 that
\* with d1 makes a1 close two mills at once.
MovePositions == {"d1", "d2", "a1", "a4", "a7", "g1"}

\* The words a move handed to make_move is made of.
MoveSources == {"h", "h1", "h2", "d2", "g1", "d4"}
MoveTargets == {"d3", "a4", "a1", "d4", "h8"}
MoveRemoves == {"r0", "a1", "d2", "d4", "x9"}

\* Lines that do not hold three words: the empty line, one of two words and
\* one of four.
MalformedLines ==
  { <<>>, <<"h", SP, "d3">>, <<"h", SP, "d3", SP, "r0", SP, "extra">> }

\* No word: the place of source, target and removal of a malformed line.
NoWord == ""

\* A move as a line: three words with a blank between them.
MoveLine(s, t, r) == <<s, SP, t, SP, r>>

InitMove ==
  /\ color = <<"blue", "orange">>
  /\ current_player \in Players
  /\ board \in BoardsOn(MovePositions)
  /\ player_hands \in [Colors -> (0..MaxUnitHand) \cup {StartHand}]
  /\ \A c \in Colors : /\ ~(_count_player_pieces(c) < MinPieces)
                        /\ _count_player_pieces(c) <= StartHand
  /\ is_game_over = FALSE
  /\ pc = "unit"
  /\ move = NoLine
  /\ winner = NoPlayer
  /\ last_mover = None
  /\ process = [p \in Players |-> "alive"]
  /\ output_queue = [p \in Players |-> <<>>]
  /\ stop_calls = [p \in Players |-> 0]
  /\ stdin = [p \in Players |-> EmptyStdin]
  /\ elapsed = 0
  /\ unit = NoCall

CallMakeMove(s, t, r) ==
  /\ pc = "unit"
  /\ unit.op = "none"
  /\ \E ok \in BOOLEAN :
       /\ make_move(MoveLine(s, t, r), ok)
       /\ unit' = [op |-> "make_move", source |-> s, target |-> t,
                   remove |-> r, ret |-> ok, board0 |-> board,
                   hands0 |-> player_hands, player0 |-> current_player,
                   words |-> 3, game_history |-> <<>>]
  /\ UNCHANGED << color, current_player, is_game_over, pc, move, winner,
                  process, output_queue, stop_calls, stdin, elapsed >>

\* make_move on a line that does not hold three words.
CallMakeMoveMalformed(line) ==
  /\ pc = "unit"
  /\ unit.op = "none"
  /\ \E ok \in BOOLEAN :
       /\ make_move(line, ok)
       /\ unit' = [op |-> "make_move", source |-> NoWord, target |-> NoWord,
                   remove |-> NoWord, ret |-> ok, board0 |-> board,
                   hands0 |-> player_hands, player0 |-> current_player,
                   words |-> Len(split(strip(line))), game_history |-> <<>>]
  /\ UNCHANGED << color, current_player, is_game_over, pc, move, winner,
                  process, output_queue, stop_calls, stdin, elapsed >>

NextMove ==
  \/ \E s \in MoveSources, t \in MoveTargets, r \in MoveRemoves :
       CallMakeMove(s, t, r)
  \/ \E line \in MalformedLines : CallMakeMoveMalformed(line)

MoveSpec == InitMove /\ [][NextMove]_vars

\* make_move has been called; unit holds its arguments, its result and the
\* position it was called on.
Called == unit.op = "make_move"

Mover == color[current_player]
Opponent == color[Other(current_player)]

\* The stones of colour c on the board before the call.
StonesOnBoard0(c) == {p \in ValidPositions : unit.board0[p] = c}

\* The mill m is held by colour c before the call.
Completed0(m, c) == \A p \in m : unit.board0[p] = c

\* The move completes a mill for the mover: a line through the target whose
\* other two positions hold the mover's stones, neither being the source.
Completes ==
  \E m \in MillSets :
     /\ unit.target \in m
     /\ \A p \in m \ {unit.target} :
          p # unit.source /\ unit.board0[p] = Mover

\* The target is a valid position that was empty.
LegalTarget ==
  /\ unit.target \in ValidPositions
  /\ unit.board0[unit.target] = None

\* The target is in the adjacency list of the source.
Adjacent ==
  /\ unit.source \in DOMAIN neighbors
  /\ InSeq(unit.target, neighbors[unit.source])

\* The source is the mover's own stone on the board.
OwnStone ==
  /\ unit.source \in ValidPositions
  /\ unit.board0[unit.source] = Mover

\* The source is legal whatever the reading of the flying rule: the hand with
\* a stone in it, an adjacent own stone, or any own stone of a mover with
\* three stones on the board and none in hand.
LegalSource ==
  \/ unit.source = "h" /\ unit.hands0[Mover] > 0
  \/ OwnStone /\ Adjacent
  \/ /\ OwnStone
     /\ Cardinality(StonesOnBoard0(Mover)) = 3
     /\ unit.hands0[Mover] = 0

\* The removal names an opponent's stone.
RemovesOpponent ==
  /\ unit.remove \in ValidPositions
  /\ unit.board0[unit.remove] = Opponent

\* The stone on p belongs to a completed mill of the opponent.
InOpponentMill(p) ==
  \E m \in MillSets : p \in m /\ Completed0(m, Opponent)

\* Every stone the opponent has on the board is in a completed mill.
AllOpponentInMills == \A p \in StonesOnBoard0(Opponent) : InOpponentMill(p)

\* The call left board and hands as they were.
Untouched == board = unit.board0 /\ player_hands = unit.hands0

\* C11: a move that completes a mill for the mover and carries r0 is
\* rejected, and board and hands are unchanged.
C11_MillWithoutCaptureRejected ==
  (Called /\ Completes /\ unit.remove = "r0") => (~unit.ret /\ Untouched)

\* A legal placement onto d3 that closes d1-d2-d3 was refused for its r0.
C11_Witness ==
  /\ Called
  /\ LegalTarget /\ LegalSource /\ Completes
  /\ unit.remove = "r0"
  /\ ~unit.ret

\* C12: an otherwise legal move that completes a mill and names an opponent's
\* stone outside every completed opponent mill is accepted; afterwards the
\* target holds the mover's colour, the removal position is empty and, for an
\* on-board move, so is the source; nothing else on the board changes.
C12_CaptureAccepted ==
  (/\ Called /\ LegalTarget /\ LegalSource /\ Completes
   /\ RemovesOpponent /\ ~InOpponentMill(unit.remove))
    => /\ unit.ret
       /\ board[unit.target] = Mover
       /\ board[unit.remove] = None
       /\ (unit.source \in Grid => board[unit.source] = None)
       /\ \A p \in Grid \ {unit.source, unit.target, unit.remove} :
            board[p] = unit.board0[p]

\* The mover's stone flew from g1 to d3, closed d1-d2-d3 and took a1.
C12_Witness ==
  /\ Called /\ unit.ret
  /\ unit.source = "g1" /\ unit.target = "d3" /\ unit.remove = "a1"
  /\ Completes /\ ~InOpponentMill("a1")
  /\ board["g1"] = None /\ board["d3"] = Mover /\ board["a1"] = None
  /\ unit.board0["a1"] = Opponent

\* C13: a move that does not complete a mill for the mover but names a
\* removal other than r0 is rejected, and no stone leaves the board.
C13_CaptureWithoutMillRejected ==
  (Called /\ ~Completes /\ unit.remove # "r0")
    => (~unit.ret /\ board = unit.board0)

\* A legal placement that closes no mill was refused for naming an
\* opponent's stone.
C13_Witness ==
  /\ Called
  /\ LegalTarget /\ LegalSource /\ ~Completes
  /\ RemovesOpponent
  /\ ~unit.ret
  /\ board[unit.remove] = Opponent

\* C14: when an otherwise legal move completes a mill and names an opponent's
\* stone that is part of a completed opponent mill, it is accepted exactly
\* when every stone the opponent has on the board is in a completed mill.
C14_MillStonesProtected ==
  (/\ Called /\ LegalTarget /\ LegalSource /\ Completes
   /\ RemovesOpponent /\ InOpponentMill(unit.remove))
    => (unit.ret <=> AllOpponentInMills)

\* C15: with more than 3 of the mover's stones on the board, an on-board
\* move to a target outside the adjacency list of the source is rejected and
\* the board is unchanged.
C15_NonAdjacentStepRejected ==
  (/\ Called
   /\ unit.source \in ValidPositions
   /\ Cardinality(StonesOnBoard0(Mover)) > 3
   /\ ~Adjacent)
    => (~unit.ret /\ board = unit.board0)

\* One of the mover's four stones was refused a jump to an empty position
\* with a removal token that was in order.
C15_Witness ==
  /\ Called
  /\ OwnStone /\ LegalTarget /\ ~Adjacent
  /\ Cardinality(StonesOnBoard0(Mover)) = 4
  /\ ~Completes /\ unit.remove = "r0"
  /\ ~unit.ret

\* The removal token agrees with whether a mill is completed: r0 when none
\* is, otherwise an opponent's stone that may be taken.
RemovalConsistent ==
  IF Completes
  THEN RemovesOpponent /\ (~InOpponentMill(unit.remove) \/ AllOpponentInMills)
  ELSE unit.remove = "r0"

\* C16: a mover with exactly 3 stones on the board and none in hand may move
\* any of its stones to any empty valid position, adjacent or not, given a
\* consistent removal token.
C16_FlyingAccepted ==
  (/\ Called
   /\ Cardinality(StonesOnBoard0(Mover)) = 3
   /\ unit.hands0[Mover] = 0
   /\ OwnStone /\ LegalTarget /\ RemovalConsistent)
    => unit.ret

\* A stone of a mover with three stones and an empty hand flew to a
\* position that is not adjacent to where it stood.
C16_Witness ==
  /\ Called /\ unit.ret
  /\ Cardinality(StonesOnBoard0(Mover)) = 3
  /\ unit.hands0[Mover] = 0
  /\ OwnStone /\ ~Adjacent
  /\ board[unit.target] = Mover /\ board[unit.source] = None

\* C17: flying depends on the stones on the board alone: a mover with exactly
\* 3 stones on the board, whatever its hand, may move a stone to a
\* non-adjacent empty valid position.
C17_FlyingIgnoresHand ==
  (/\ Called
   /\ Cardinality(StonesOnBoard0(Mover)) = 3
   /\ OwnStone /\ LegalTarget /\ ~Adjacent /\ RemovalConsistent)
    => unit.ret

\* C18: a placement from a hand that is not empty onto an empty valid
\* position, completing no mill and carrying r0, is accepted; the target
\* then holds the mover's colour, the mover's hand is one lower, and every
\* other position and the opponent's hand are as before.
C18_PlacementAccepted ==
  (/\ Called
   /\ unit.source = "h" /\ unit.hands0[Mover] > 0
   /\ LegalTarget /\ ~Completes /\ unit.remove = "r0")
    => /\ unit.ret
       /\ board = [unit.board0 EXCEPT ![unit.target] = Mover]
       /\ player_hands = [unit.hands0 EXCEPT ![Mover] = @ - 1]

\* A stone was placed from the hand on a position none of whose neighbours
\* holds a stone of the mover.
C18_Witness ==
  /\ Called /\ unit.ret
  /\ unit.source = "h" /\ unit.remove = "r0"
  /\ \A i \in 1..Len(neighbors[unit.target]) :
       unit.board0[neighbors[unit.target][i]] # Mover
  /\ board[unit.target] = Mover
  /\ player_hands[Mover] = unit.hands0[Mover] - 1

\* The hand marker of a colour: h1 for blue, h2 for orange.
HandMarker(c) == IF c = "blue" THEN "h1" ELSE "h2"

\* C19: "h1 <target> r0" from blue and "h2 <target> r0" from orange are
\* accepted when the target is an empty valid position, the mover has a stone
\* in hand and no mill is completed, and the mover's hand is decremented.
C19_HandMarkerPerColour ==
  (/\ Called
   /\ unit.source = HandMarker(Mover) /\ unit.hands0[Mover] > 0
   /\ LegalTarget /\ ~Completes /\ unit.remove = "r0")
    => /\ unit.ret
       /\ player_hands[Mover] = unit.hands0[Mover] - 1

\* C20: a move whose target is not one of the 24 valid positions, or is
\* occupied by either colour, is rejected whatever its source and removal.
C20_BadTargetRejected ==
  (Called /\ (unit.target \notin ValidPositions
                \/ unit.board0[unit.target] # None))
    => (~unit.ret /\ Untouched)

\* A placement from a hand with stones in it onto a position the opponent
\* holds was refused.
C20_Witness ==
  /\ Called
  /\ unit.source = "h" /\ unit.hands0[Mover] > 0 /\ unit.remove = "r0"
  /\ unit.target \in ValidPositions
  /\ unit.board0[unit.target] = Opponent
  /\ ~unit.ret

\* C21: a move whose source is not the hand is rejected unless the source is
\* a valid position holding the mover's own stone: an empty source, one the
\* opponent holds, an invalid field or an unknown token is rejected, and the
\* position is left as it was.
C21_BadSourceRejected ==
  (Called /\ unit.words = 3 /\ unit.source # "h" /\ ~OwnStone)
    => (~unit.ret /\ Untouched)

\* An adjacent step of a stone the opponent holds, onto an empty position
\* and with r0, was refused.
C21_Witness ==
  /\ Called
  /\ unit.source \in ValidPositions
  /\ unit.board0[unit.source] = Opponent
  /\ LegalTarget /\ Adjacent /\ unit.remove = "r0"
  /\ ~unit.ret

\* C22: each colour's hand count is between 0 and 10 and is never raised by
\* a call; a placement from an empty hand is rejected.
C22_HandsBoundedNonIncreasing ==
  /\ \A c \in Colors : player_hands[c] \in 0..10
  /\ Called =>
       /\ \A c \in Colors : player_hands[c] <= unit.hands0[c]
       /\ (unit.source = "h" /\ unit.hands0[Mover] = 0) => ~unit.ret

\* A placement from an empty hand that was in order otherwise was refused.
C22_Witness ==
  /\ Called
  /\ unit.source = "h" /\ unit.hands0[Mover] = 0
  /\ LegalTarget /\ ~Completes /\ unit.remove = "r0"
  /\ ~unit.ret
  /\ player_hands[Mover] = 0

\* A colour's stones on the board plus the stones in its hand, before the
\* call.
Total0(c) == Cardinality(StonesOnBoard0(c)) + unit.hands0[c]

\* C23: no call raises a colour's total of stones on the board and in hand;
\* an accepted move leaves the mover's total as it was and lowers the
\* opponent's by exactly 1 when it carries a removal, by 0 when it does not.
C23_StonesConserved ==
  Called =>
    /\ \A c \in Colors : Total(c) <= Total0(c)
    /\ unit.ret =>
         /\ Total(Mover) = Total0(Mover)
         /\ Total(Opponent) =
              Total0(Opponent) - (IF unit.remove # "r0" THEN 1 ELSE 0)

\* A placement closed two mills at once and took one stone.
C23_Witness ==
  /\ Called /\ unit.ret
  /\ \E m1, m2 \in MillSets :
       /\ m1 # m2
       /\ unit.target \in m1 /\ unit.target \in m2
       /\ \A p \in m1 \cup m2 : board[p] = Mover
  /\ Total(Opponent) = Total0(Opponent) - 1
  /\ Total(Mover) = Total0(Mover)

\* C24: whenever make_move returns False, for a malformed line or an illegal
\* move, the board, both hands and the current player are what they were
\* before the call.
C24_RejectionLeavesState ==
  (Called /\ ~unit.ret)
    => (Untouched /\ current_player = unit.player0)

\* A line of four words was refused on a position that has stones on it.
C24_Witness ==
  /\ Called /\ ~unit.ret
  /\ unit.words = 4
  /\ StonesOnBoard0(Mover) # {}
  /\ Untouched

\* C26: every accepted move appends one entry with the move and the mover's
\* colour to the move history, and a rejected move appends nothing.
C26_HistoryAppendOnly ==
  Called =>
    IF unit.ret
    THEN /\ Len(unit.game_history) = 1
         /\ unit.game_history[1].player = Mover
    ELSE unit.game_history = <<>>

(***************************************************************************)
(* The end of a game, checked under Spec.                                  *)
(***************************************************************************)
\* An end-of-game line: one that begins with the end marker.
IsEndLine(l) == l # <<>> /\ Head(l) = "END:"

\* C25: when run_game has returned with the game over, the last line the
\* referee wrote to each player's channel is an end-of-game line.
C25_EndLineToBothPlayers ==
  (pc = "done" /\ is_game_over)
    => \A p \in Players : IsEndLine(stdin[p].last)

(***************************************************************************)
(* One AbstractPlayer channel on its own: the process, its two pipes, the  *)
(* two reader threads, and the referee thread calling start, read, stop.   *)
(* The channel is _player1; unit holds the parts of it the game does not   *)
(* look at.                                                                *)
(***************************************************************************)
\* Lines the process writes to standard output in one run.
MaxPrinted == 2
\* Lines the process writes to standard error in one run.
MaxErrPrinted == 1

\* Calls of stop() on one channel.
MaxStops == 2

\* What the process may write to standard output: a move followed by a
\* blank, and a blank line.
StdoutLines == { <<"h", SP, "d1", SP, "r0", SP>>, <<SP>> }

\* What the process writes to standard error.
StderrLine == <<"warning">>

Pipes == {"stdout", "stderr"}

\* Failures the process API may report during stop(), and the calls that
\* may report them.
Faults == {"none", "ProcessLookupError", "OSError"}
FaultSites == {"terminate", "close", "kill"}

\* The state after AbstractPlayer.__init__.
InitChan ==
  /\ color = <<"blue", "orange">>
  /\ board = [p \in Grid |-> None]
  /\ player_hands = [c \in Colors |-> StartHand]
  /\ current_player = 1
  /\ is_game_over = FALSE
  /\ pc = "idle"
  /\ move = NoLine
  /\ winner = NoPlayer
  /\ last_mover = None
  /\ process = [p \in Players |-> None]
  /\ output_queue = [p \in Players |-> <<>>]
  /\ stop_calls = [p \in Players |-> 0]
  /\ stdin = [p \in Players |-> EmptyStdin]
  /\ elapsed = 0
  /\ unit = [op |-> "none", started |-> FALSE, stop_event |-> FALSE,
             pipe |-> [k \in Pipes |-> <<>>],
             held |-> [k \in Pipes |-> NoLine],
             printed |-> <<>>, err_printed |-> 0,
             returned |-> <<>>, ret |-> NoLine,
             queue0 |-> <<>>, process0 |-> None,
             terminate_calls |-> 0, kill_calls |-> 0, raised |-> FALSE,
             thread_refs |-> FALSE, wait |-> "skipped",
             unlocked_access |-> FALSE]

chanGame == << color, board, player_hands, current_player, is_game_over,
               winner, last_mover, stdin >>

\* start(): clear the stop event, spawn the process and the reader threads.
\* The referee starts a channel once.
ChanStart ==
  /\ pc = "idle"
  /\ ~unit.started
  /\ process[1] = None
  /\ process' = [process EXCEPT ![1] = "alive"]
  /\ unit' = [unit EXCEPT !.op = "start", !.started = TRUE,
                          !.stop_event = FALSE, !.thread_refs = TRUE]
  /\ UNCHANGED << chanGame, pc, move, output_queue, stop_calls, elapsed >>

\* The process writes a line to its standard output.
ChanPrint(line) ==
  /\ process[1] = "alive"
  /\ Len(unit.printed) < MaxPrinted
  /\ unit' = [unit EXCEPT !.pipe["stdout"] = Append(@, line),
                          !.printed = Append(@, line)]
  /\ UNCHANGED << chanGame, pc, move, process, output_queue, stop_calls,
                  elapsed >>

\* The process writes a line to its standard error.
ChanPrintErr ==
  /\ process[1] = "alive"
  /\ unit.err_printed < MaxErrPrinted
  /\ unit' = [unit EXCEPT !.pipe["stderr"] = Append(@, StderrLine),
                          !.err_printed = @ + 1]
  /\ UNCHANGED << chanGame, pc, move, process, output_queue, stop_calls,
                  elapsed >>

\* _process_output, a reader thread: the stop event is clear and readline()
\* returns the next line of its pipe.
ThreadReadline(k) ==
  /\ unit.started
  /\ ~unit.stop_event
  /\ unit.held[k] = NoLine
  /\ unit.pipe[k] # <<>>
  /\ unit' = [unit EXCEPT !.held[k] = Head(unit.pipe[k]),
                          !.pipe[k] = Tail(@)]
  /\ UNCHANGED << chanGame, pc, move, process, output_queue, stop_calls,
                  elapsed >>

\* Whether an access to the output queue is made holding _queue_lock: the
\* append of a reader thread and the test and pop of read() are, the clear of
\* stop() is not.
QueueLocked(access) == access \in {"append", "pop"}

\* _process_output, a reader thread: append the line to the queue.
ThreadAppend(k) ==
  /\ unit.held[k] # NoLine
  /\ output_queue' = [output_queue EXCEPT ![1] = Append(@, unit.held[k])]
  /\ unit' = [unit EXCEPT !.held[k] = NoLine,
                          !.unlocked_access = @ \/ ~QueueLocked("append")]
  /\ UNCHANGED << chanGame, pc, move, process, stop_calls, elapsed >>

\* The referee thread calls read().
ChanCallRead ==
  /\ pc = "idle"
  /\ pc' = "read"
  /\ UNCHANGED << chanGame, move, process, output_queue, stop_calls,
                  elapsed, unit >>

\* One pass of read()'s loop, recording the queue and the process it found
\* and, when it returns, what it returned.
ChanRead ==
  /\ pc = "read"
  /\ \/ /\ ReadLine
        /\ unit' = [unit EXCEPT !.op = "read", !.ret = move',
                                !.returned = Append(@, move'),
                                !.queue0 = output_queue[1],
                                !.process0 = process[1],
                                !.unlocked_access = @ \/ ~QueueLocked("pop")]
     \/ /\ ReadClosed
        /\ unit' = [unit EXCEPT !.op = "read", !.ret = move',
                                !.queue0 = output_queue[1],
                                !.process0 = process[1]]
     \/ /\ ReadPoll
        /\ unit' = [unit EXCEPT !.queue0 = output_queue[1],
                                !.process0 = process[1]]
  /\ UNCHANGED << chanGame, process, stop_calls >>

\* read() has returned to its caller.
ChanReturn ==
  /\ pc = "make_move"
  /\ pc' = "idle"
  /\ UNCHANGED << chanGame, move, process, output_queue, stop_calls, elapsed,
                  unit >>

\* stop() raises what the process API raised unless it is ProcessLookupError.
StopRaises(fault) == fault \notin {"none", "ProcessLookupError"}

\* Mutant: stop() kills whatever wait() reported.
KillIssued_Always(live, fault, site, timeout) == live

\* stop() issues kill: wait() was reached and ran into its timeout.
KillIssued(live, fault, site, timeout) ==
  live /\ timeout /\ ~(fault # "none" /\ site \in {"terminate", "close"})

\* What the grace wait of stop() reported.
WaitOutcome(live, fault, site, timeout) ==
  IF ~live \/ (fault # "none" /\ site \in {"terminate", "close"})
  THEN "skipped"
  ELSE IF timeout THEN "timeout" ELSE "exited"

\* stop(), called by `caller` ("stop" or "__del__"): set the stop event; with
\* a process handle, terminate, close the pipes, wait, kill on a timeout;
\* whatever happened, drop the handle and clear the queue.  The API reports
\* `fault` at the call `site`; wait() runs into its timeout when `timeout`.
ChanStop(caller, fault, site, timeout) ==
  LET live    == process[1] # None
      failed  == fault # "none"
      closed  == live /\ ~(failed /\ site = "terminate")
      killing == KillIssued(live, fault, site, timeout)
      faulted == live /\ failed /\ (site = "kill" => killing)
  IN /\ pc = "idle"
     /\ stop_calls[1] < MaxStops
     /\ stop(1)
     /\ unit' = [unit EXCEPT
                   !.op = caller,
                   !.stop_event = TRUE,
                   !.pipe = IF closed THEN [k \in Pipes |-> <<>>] ELSE @,
                   !.terminate_calls = IF live THEN @ + 1 ELSE @,
                   !.kill_calls = IF killing THEN @ + 1 ELSE @,
                   !.raised = faulted /\ StopRaises(fault),
                   !.thread_refs = IF live THEN FALSE ELSE @,
                   !.wait = WaitOutcome(live, fault, site, timeout),
                   !.unlocked_access = @ \/ (live /\ ~QueueLocked("clear"))]
     /\ pc' = IF caller = "__del__" THEN "deleted" ELSE pc
     /\ UNCHANGED << chanGame, move, elapsed >>

NextChan ==
  \/ ChanStart
  \/ \E line \in StdoutLines : ChanPrint(line)
  \/ ChanPrintErr
  \/ \E k \in Pipes : ThreadReadline(k)
  \/ \E k \in Pipes : ThreadAppend(k)
  \/ ProcessExit(1)
  \/ ChanCallRead
  \/ ChanRead
  \/ ChanReturn
  \/ \E caller \in {"stop", "__del__"}, fault \in Faults, site \in FaultSites,
        timeout \in BOOLEAN : ChanStop(caller, fault, site, timeout)

ChanSpec == InitChan /\ [][NextChan]_vars

NotStderr(l) == l # StderrLine

\* The lines of a sequence, each stripped.
Stripped(ls) == [i \in 1..Len(ls) |-> strip(ls[i])]

\* The standard-output lines read() has returned so far.
ReturnedOut == SelectSeq(unit.returned, NotStderr)

\* The standard-output lines on their way to read(): queued, in the reader
\* thread's hand, or still in the pipe.
PendingOut ==
  SelectSeq(output_queue[1], NotStderr)
    \o (IF unit.held["stdout"] # NoLine THEN <<unit.held["stdout"]>> ELSE <<>>)
    \o unit.pipe["stdout"]

\* C27: until stop() is called, the lines the process wrote to its standard
\* output are returned by successive reads in the order written, each once
\* and stripped; the lines not yet returned, whenever they were written, are
\* kept in order for later reads.
C27_LinesDeliveredInOrder ==
  ~unit.stop_event =>
    Stripped(unit.printed) = ReturnedOut \o Stripped(PendingOut)

\* Two different lines, written before any read, were returned in the order
\* written after the process had exited.
C27_Witness ==
  /\ ~unit.stop_event
  /\ process[1] = "dead"
  /\ Len(unit.printed) = 2
  /\ unit.printed[1] # unit.printed[2]
  /\ ReturnedOut = Stripped(unit.printed)

\* read() has just returned `move`.
ReadReturned == pc = "make_move"

\* C28, as stated: read() returns the empty string only when the queue is
\* empty and the process is gone; a queued line is returned whatever the
\* state of the process; with the process alive and the queue empty read()
\* does not return.
C28_EmptyOnlyWhenClosed ==
  ReadReturned =>
    /\ move = <<>> => (unit.queue0 = <<>> /\ unit.process0 # "alive")
    /\ unit.queue0 # <<>> => move = strip(Head(unit.queue0))
    /\ ~(unit.queue0 = <<>> /\ unit.process0 = "alive")

\* C28, amended: read() returns the empty string when the queue is empty and
\* the process is gone, and also when the line it pops is blank; a queued
\* line is returned stripped whatever the state of the process; with the
\* process alive and the queue empty read() does not return.
C28_EmptyWhenClosedOrBlank ==
  ReadReturned =>
    /\ move = <<>> =>
         \/ unit.queue0 = <<>> /\ unit.process0 # "alive"
         \/ unit.queue0 # <<>> /\ strip(Head(unit.queue0)) = <<>>
    /\ unit.queue0 # <<>> => move = strip(Head(unit.queue0))
    /\ ~(unit.queue0 = <<>> /\ unit.process0 = "alive")

\* A move left in the queue by a process that has exited was returned.
C28_Witness ==
  /\ ReadReturned
  /\ unit.process0 = "dead"
  /\ unit.queue0 # <<>>
  /\ move = <<"h", SP, "d1", SP, "r0">>

C30_StopNeverRaises == ~unit.raised

\* C31: once stop() has been called, whatever the process API reported, the
\* process handle and the reader-thread references are released and the stop
\* signal is set, and a read() issued afterwards returns the empty string.
C31_StopReleasesChannel ==
  unit.stop_event =>
    /\ process[1] = None
    /\ ~unit.thread_refs
    /\ ReadReturned => move = <<>>

\* C32: stop() issues kill only in a call that issued terminate first and
\* whose grace wait ran into its timeout; a call whose wait saw the process
\* exit, or that never reached the wait, issues no kill.
C32_KillOnlyAfterGraceWait ==
  [][ /\ unit'.kill_calls # unit.kill_calls =>
           /\ unit'.kill_calls = unit.kill_calls + 1
           /\ unit'.terminate_calls = unit.terminate_calls + 1
           /\ unit'.wait = "timeout"
      /\ (stop_calls'[1] # stop_calls[1] /\ unit'.wait # "timeout") =>
           unit'.kill_calls = unit.kill_calls ]_vars

\* stop() terminated a running process, waited in vain and killed it.
C32_Witness ==
  /\ unit.op = "stop"
  /\ unit.terminate_calls = 1
  /\ unit.wait = "timeout"
  /\ unit.kill_calls = 1
  /\ ~unit.raised

\* C33: every access made to the output queue so far, by a reader thread's
\* append, by read()'s pop or by stop()'s clear, was made holding the queue
\* lock.
C33_QueueAccessUnderLock == ~unit.unlocked_access

\* C35: a read() issued after the process exited returns "" for want of a
\* queued line only if no move line the process wrote is still on its way
\* from the pipe to the queue.
C35_NoLineLostAtExit ==
  ( /\ ReadReturned
    /\ ~unit.stop_event
    /\ unit.process0 = "dead"
    /\ unit.queue0 = <<>> ) =>
      \A i \in 1..Len(PendingOut) : strip(PendingOut[i]) = <<>>

\* C36: from the return of stop() to the next start() the output queue is
\* empty.
C36_QueueEmptyAfterStop == unit.stop_event => output_queue[1] = <<>>

\* C37: no line that read() has returned is a line the process wrote to its
\* standard error.
C37_OnlyStdoutReturned ==
  \A i \in 1..Len(unit.returned) : NotStderr(unit.returned[i])

\* C34: a move whose removal token is neither r0 nor a valid position held
\* by the opponent (an empty position, the move's own target, an invalid
\* field, a label off the board, a stone of the mover) is rejected, whether
\* or not it completes a mill, and board and hands are unchanged.
C34_RemovalMustNameOpponent ==
  (/\ Called /\ unit.words = 3
   /\ unit.remove # "r0" /\ ~RemovesOpponent)
    => (~unit.ret /\ Untouched)

\* An otherwise legal move that closed a mill was refused for naming its own
\* target as the removal.
C34_Witness ==
  /\ Called
  /\ LegalTarget /\ LegalSource /\ Completes
  /\ unit.remove = unit.target
  /\ ~unit.ret /\ Untouched

\* determine_winner has returned a winner to run_game, which returned it.
WonByCount ==
  /\ pc = "done"
  /\ winner # NoPlayer
  /\ \A p \in Players : stop_calls[p] = 0

MillMoves ==
  { st \in ({"h"} \cup ValidPositions) \X ValidPositions :
      /\ TargetOk(st[2])
      /\ SourceOk(st[1], st[2])
      /\ _is_mill(st[1], st[2]) }

\* The positions on which the opponent of the current player has a stone.
OpponentStones == { p \in ValidPositions : board[p] = color[Other(current_player)] }

\* C38: whenever run_game is about to read or to validate a move and a move
\* of the current player would complete a mill, the opponent has a stone on
\* the board and some removal token makes that move valid.
C38_MillMoveHasRemoval ==
  pc \in {"read", "make_move"} =>
    \A st \in MillMoves :
       /\ OpponentStones # {}
       /\ \E r \in ValidPositions : _is_valid_move(st[1], st[2], r)

\* The current player holds d1 and d2 with d3 free and a stone in hand, and
\* the opponent's only stone stands on g4.
C38_Witness ==
  /\ pc = "read"
  /\ <<"h", "d3">> \in MillMoves
  /\ OpponentStones = {"g4"}
  /\ _is_valid_move("h", "d3", "g4")

(***************************************************************************)
(* The bundled minimax player's move generator, run on the referee's board *)
(* and hands, and the referee's make_move called on what it generates.     *)
(***************************************************************************)

\* LaskerMorrisAI.valid_points
valid_points ==
  { "a1", "a4", "a7", "b2", "b4", "b6", "c3", "c4", "c5",
    "d1", "d2", "d3", "d5", "d6", "d7", "e3", "e4", "e5",
    "f2", "f4", "f6", "g1", "g4", "g7" }

\* LaskerMorrisAI.adjacent_points
adjacent_points ==
  [ a1 |-> {"d1", "a4"},             a4 |-> {"a1", "a7", "b4"},
    a7 |-> {"a4", "d7"},             b2 |-> {"d2", "b4"},
    b4 |-> {"b2", "b6", "a4", "c4"}, b6 |-> {"b4", "d6"},
    c3 |-> {"d3", "c4"},             c4 |-> {"c3", "c5", "b4"},
    c5 |-> {"c4", "d5"},             d1 |-> {"a1", "d2", "g1"},
    d2 |-> {"d1", "d3", "b2", "f2"}, d3 |-> {"d2", "c3", "e3"},
    d5 |-> {"d6", "c5", "e5"},       d6 |-> {"d5", "d7", "b6", "f6"},
    d7 |-> {"d6", "a7", "g7"},       e3 |-> {"d3", "e4"},
    e4 |-> {"e3", "e5", "f4"},       e5 |-> {"e4", "d5"},
    f2 |-> {"d2", "f4"},             f4 |-> {"f2", "f6", "e4", "g4"},
    f6 |-> {"f4", "d6"},             g1 |-> {"d1", "g4"},
    g4 |-> {"g1", "g7", "f4"},       g7 |-> {"g4", "d7"} ]

\* The mills LaskerMorrisAI.is_mill lists.
player_mills ==
  { {"a1", "a4", "a7"}, {"b2", "b4", "b6"}, {"c3", "c4", "c5"},
    {"d1", "d2", "d3"}, {"d5", "d6", "d7"}, {"e3", "e4", "e5"},
    {"f2", "f4", "f6"}, {"g1", "g4", "g7"},
    {"a1", "d1", "g1"}, {"b2", "d2", "f2"}, {"c3", "d3", "e3"},
    {"a4", "b4", "c4"}, {"e4", "f4", "g4"}, {"c5", "d5", "e5"},
    {"b6", "d6", "f6"}, {"a7", "d7", "g7"} }

\* LaskerMorrisAI.is_mill on the player's board b: with a stone of colour c
\* on position, some listed mill through position is all of colour c.
is_mill(b, position, c) ==
  LET board_copy == [b EXCEPT ![position] = c]
  IN \E mill \in player_mills :
        /\ position \in mill
        /\ \A pos \in mill : board_copy[pos] = c

\* The colour the player takes for the opponent of c.
opponent_color(c) == IF c = "blue" THEN "orange" ELSE "blue"

\* LaskerMorrisAI._get_valid_remove_positions: the opponent's stones outside
\* mills, or all of the opponent's stones when none is.
_get_valid_remove_positions(b, c) ==
  LET stones == { pos \in valid_points : b[pos] = opponent_color(c) }
      free   == { pos \in stones : ~is_mill(b, pos, opponent_color(c)) }
  IN IF free = {} THEN stones ELSE free

\* The removals get_valid_moves pairs with a move that forms a mill: the
\* valid remove positions, else an opponent stone, else r0.
removals(b, c) ==
  LET remove_positions == _get_valid_remove_positions(b, c)
      opponent_stones  == { pos \in valid_points : b[pos] = opponent_color(c) }
  IN IF remove_positions # {} THEN remove_positions
     ELSE IF opponent_stones # {}
          THEN {CHOOSE pos \in opponent_stones : TRUE}
          ELSE {"r0"}

\* Mutant: the player flies as soon as it has 3 stones or fewer on the
\* board, whatever it holds in hand.
possible_to_BoardCountOnly(b, h, c, from_pos) ==
  LET stones_on_board == Cardinality({ pos \in valid_points : b[pos] = c })
  IN IF stones_on_board > FlyPieces THEN adjacent_points[from_pos]
     ELSE valid_points

\* get_valid_moves, the destinations tried for the stone on from_pos: the
\* adjacent points while board and hand together exceed 3, else every point.
possible_to(b, h, c, from_pos) ==
  LET stones_on_board == Cardinality({ pos \in valid_points : b[pos] = c })
      total_stones    == stones_on_board + h[c]
  IN IF total_stones > FlyPieces THEN adjacent_points[from_pos]
     ELSE valid_points

\* get_valid_moves, phase 1: placements from the hand, marked h1 or h2.
hand_moves(b, h, c) ==
  IF h[c] > 0
  THEN LET from_pos == IF c = "blue" THEN "h1" ELSE "h2"
       IN UNION { IF is_mill([b EXCEPT ![to_pos] = c], to_pos, c)
                  THEN { <<from_pos, to_pos, r>> : r \in removals(b, c) }
                  ELSE { <<from_pos, to_pos, "r0">> }
                  : to_pos \in { q \in valid_points : b[q] = None } }
  ELSE {}

\* get_valid_moves, phases 2 and 3: moves of the stones on the board.
board_moves(b, h, c) ==
  UNION { UNION { IF is_mill([b EXCEPT ![from_pos] = None, ![to_pos] = c],
                             to_pos, c)
                  THEN { <<from_pos, to_pos, r>> : r \in removals(b, c) }
                  ELSE { <<from_pos, to_pos, "r0">> }
                  : to_pos \in { q \in possible_to(b, h, c, from_pos) :
                                   b[q] = None } }
          : from_pos \in { q \in valid_points : b[q] = c } }

\* LaskerMorrisAI.get_valid_moves(color) on board b and hands h.
get_valid_moves(b, h, c) == hand_moves(b, h, c) \cup board_moves(b, h, c)

\* The referee's make_move is called on a move the player generates for the
\* colour to move from the referee's own board and hands.
CallGeneratedMove ==
  \E m \in get_valid_moves(board, player_hands, CurColor) :
     CallMakeMove(m[1], m[2], m[3])

NextAgree == CallGeneratedMove

AgreeSpec == InitMove /\ [][NextAgree]_vars

\* The player's tables against the referee's: the same points, the same
\* mills, and every adjacency of the player is one of the referee's.
TablesAgree ==
  /\ valid_points = ValidPositions
  /\ player_mills = MillSets
  /\ \A p \in valid_points :
       \A q \in adjacent_points[p] : InSeq(q, neighbors[p])

\* C40: when the opponent has a stone on the board, a move with a board
\* position as its source that get_valid_moves generates for the colour to
\* move is accepted by the referee in the same state; the tables the player
\* generates from agree with the referee's on every point of the board.
C40_GeneratedBoardMovesAccepted ==
  /\ TablesAgree
  /\ (/\ Called
      /\ unit.source \in ValidPositions
      /\ StonesOnBoard0(Opponent) # {}
      /\ <<unit.source, unit.target, unit.remove>>
           \in get_valid_moves(unit.board0, unit.hands0, Mover))
       => unit.ret

\* A generated flying move that closed a mill and took an opponent's stone
\* was accepted.
C40_Witness ==
  /\ Called /\ unit.ret
  /\ unit.source \in ValidPositions
  /\ <<unit.source, unit.target, unit.remove>>
       \in board_moves(unit.board0, unit.hands0, Mover)
  /\ ~Adjacent /\ Completes
  /\ unit.board0[unit.remove] = Opponent
  /\ board[unit.remove] = None /\ board[unit.target] = Mover

====
